---- MODULE Spec2Model ----
(***************************************************************************)
(* fester: builds a JSON manifest for a list of docker images (main.go).   *)
(* Go strings are modelled as sequences of one-character strings, so that  *)
(* prefix tests, trimming, line scanning and formatting are computed.      *)
(***************************************************************************)
EXTENDS Integers, Sequences, FiniteSets, TLC

VARIABLES
    reg, imgs, tag, outf, files,  \* the command-line flags (main.go:16-22)
    pc,            \* position of main / of the extractor run
    errmsg,        \* the log.Fatal message the process ended with ("" if none)
    imgContent,    \* what reading the image-list file gave (bytes or ReadError)
    filesContent,  \* what reading/decoding the files JSON gave
    images,        \* main's `images`
    dropFiles,     \* main's `dropFiles`
    idx,           \* position of the range loop over images (1-based)
    spec,          \* main's `spec` (the current ImageSpecifier)
    outbuf,        \* Version's `outbuf` (captured run output)
    imageID,       \* Version's `imageID`
    lines,         \* the result of ReadLines(outbuf.Bytes())
    v,             \* the *VersionInfo returned by Version
    imageVersions, \* main's `imageVersions`
    outFile,       \* what this run has written to the --output path
    trace          \* the docker invocations made so far, in order

vars == <<reg, imgs, tag, outf, files, pc, errmsg, imgContent, filesContent,
          images, dropFiles, idx, spec, outbuf, imageID, lines, v,
          imageVersions, outFile, trace>>

----------------------------------------------------------------------------
(* Bounds of the model *)

\* longest image-list file, in bytes
MaxFileLen == 4
\* most lines in a generated run output
MaxLines == 3

----------------------------------------------------------------------------
(* String helpers (package strings, bufio) *)

EmptyStr == <<>>

\* unicode.IsSpace restricted to the ASCII characters used here
WhiteSpace == {" ", "\t", "\n", "\r", "\f"}

HasPrefix(s, prefix) ==
    /\ Len(s) >= Len(prefix)
    /\ SubSeq(s, 1, Len(prefix)) = prefix

\* the set of characters of a cutset string
Chars(cutset) == {cutset[k] : k \in DOMAIN cutset}

\* strings.TrimLeft(s, cutset): drops every leading character that is in cutset
TrimLeft(s, cutset) ==
    LET keep == {k \in 1..Len(s) : s[k] \notin Chars(cutset)}
    IN  IF keep = {} THEN EmptyStr
        ELSE SubSeq(s, CHOOSE k \in keep : \A j \in keep : k <= j, Len(s))

\* strings.TrimSpace(s)
TrimSpace(s) ==
    LET keep == {k \in 1..Len(s) : s[k] \notin WhiteSpace}
    IN  IF keep = {} THEN EmptyStr
        ELSE SubSeq(s, CHOOSE k \in keep : \A j \in keep : k <= j,
                       CHOOSE k \in keep : \A j \in keep : k >= j)

\* bytes.IndexByte, 1-based; 0 when absent
IndexByte(s, c) ==
    LET at == {k \in 1..Len(s) : s[k] = c}
    IN  IF at = {} THEN 0 ELSE CHOOSE k \in at : \A j \in at : k <= j

\* bufio's dropCR
dropCR(data) ==
    IF Len(data) > 0 /\ data[Len(data)] = "\r"
    THEN SubSeq(data, 1, Len(data) - 1) ELSE data

\* ReadLines: bufio.Scanner with bufio.ScanLines over the content
RECURSIVE ReadLines(_)
ReadLines(content) ==
    IF content = EmptyStr THEN <<>>
    ELSE LET i == IndexByte(content, "\n")
         IN  IF i > 0
             THEN <<dropCR(SubSeq(content, 1, i - 1))>>
                  \o ReadLines(SubSeq(content, i + 1, Len(content)))
             ELSE <<dropCR(content)>>

----------------------------------------------------------------------------
(* NewVersionInfo *)

AppVersionPrefix == <<"A","p","p","-","V","e","r","s","i","o","n",":"," ">>
GitRefPrefix     == <<"G","i","t","-","R","e","f",":"," ">>
BuiltByPrefix    == <<"B","u","i","l","t","-","B","y",":"," ">>

\* var appver, gitref, builtby string
ZeroFields == [appver |-> EmptyStr, gitref |-> EmptyStr, builtby |-> EmptyStr]

\* faulty variant of the loop body: a field once set is never overwritten
ParseLine_FirstWins(acc, p) ==
    [appver  |-> IF HasPrefix(p, AppVersionPrefix) /\ acc.appver = EmptyStr
                 THEN TrimSpace(TrimLeft(p, AppVersionPrefix)) ELSE acc.appver,
     gitref  |-> IF HasPrefix(p, GitRefPrefix) /\ acc.gitref = EmptyStr
                 THEN TrimSpace(TrimLeft(p, GitRefPrefix)) ELSE acc.gitref,
     builtby |-> IF HasPrefix(p, BuiltByPrefix) /\ acc.builtby = EmptyStr
                 THEN TrimSpace(TrimLeft(p, BuiltByPrefix)) ELSE acc.builtby]

\* faulty variant of the loop body: a line that does not start with a
\* field's prefix clears the field
ParseLine_ResetUnmatched(acc, p) ==
    [appver  |-> IF HasPrefix(p, AppVersionPrefix)
                 THEN TrimSpace(TrimLeft(p, AppVersionPrefix)) ELSE EmptyStr,
     gitref  |-> IF HasPrefix(p, GitRefPrefix)
                 THEN TrimSpace(TrimLeft(p, GitRefPrefix)) ELSE EmptyStr,
     builtby |-> IF HasPrefix(p, BuiltByPrefix)
                 THEN TrimSpace(TrimLeft(p, BuiltByPrefix)) ELSE EmptyStr]

\* one iteration of the range loop over parsefrom
ParseLine(acc, p) ==
    [appver  |-> IF HasPrefix(p, AppVersionPrefix)
                 THEN TrimSpace(TrimLeft(p, AppVersionPrefix)) ELSE acc.appver,
     gitref  |-> IF HasPrefix(p, GitRefPrefix)
                 THEN TrimSpace(TrimLeft(p, GitRefPrefix)) ELSE acc.gitref,
     builtby |-> IF HasPrefix(p, BuiltByPrefix)
                 THEN TrimSpace(TrimLeft(p, BuiltByPrefix)) ELSE acc.builtby]

RECURSIVE ParseLines(_, _)
ParseLines(acc, parsefrom) ==
    IF parsefrom = <<>> THEN acc
    ELSE ParseLines(ParseLine(acc, Head(parsefrom)), Tail(parsefrom))

\* faulty variant: the identifier is taken from the parsed output when the
\* output carries a Git-Ref line
NewVersionInfo_IdFromOutput(parsefrom, id) ==
    LET f == ParseLines(ZeroFields, parsefrom)
    IN  [app_version |-> f.appver,
         git_ref     |-> f.gitref,
         built_by    |-> f.builtby,
         image_id    |-> IF f.gitref # EmptyStr THEN f.gitref ELSE id]

NewVersionInfo(parsefrom, id) ==
    LET f == ParseLines(ZeroFields, parsefrom)
    IN  [app_version |-> f.appver,
         git_ref     |-> f.gitref,
         built_by    |-> f.builtby,
         image_id    |-> id]

----------------------------------------------------------------------------
(* ImageSpecifier *)

New(r, img, t) == [Registry |-> r, Image |-> img, Tag |-> t]

\* fmt.Sprintf("%s/%s:%s", i.Registry, i.Image, i.Tag)
String(i) == i.Registry \o <<"/">> \o i.Image \o <<":">> \o i.Tag

----------------------------------------------------------------------------
(* Maps: a Go map is a function; a missing key reads as the zero value *)

EmptyMap == [k \in {} |-> <<>>]

\* imageVersions[key], a nil slice when the key is absent
Lookup(m, key) == IF key \in DOMAIN m THEN m[key] ELSE <<>>

\* m[key] = val
MapSet(m, key, val) ==
    [k \in DOMAIN m \cup {key} |-> IF k = key THEN val ELSE m[k]]

----------------------------------------------------------------------------
(* The environment: flag values, files on disk, docker's answers *)

\* what an operation of the environment returns: a value, or an error
Ok(val)        == [err |-> "", val |-> val]
Failed(e, val) == [err |-> e, val |-> val]

RegistryFlags == {EmptyStr, <<"r">>}
TagFlags      == {EmptyStr, <<"t">>}
PathFlags     == {EmptyStr, <<"p">>}

FileAlphabet == {"a", "b", "\n"}

\* every image-list file of at most MaxFileLen bytes
FileContents ==
    {EmptyStr} \cup UNION {[1..n -> FileAlphabet] : n \in 1..MaxFileLen}

\* decoded files JSON documents
FilesMaps == {(<<"f">> :> <<"d">>)}

\* standard output of `docker run --rm <image> --version`
RunOutputs ==
    { EmptyStr,
      AppVersionPrefix \o <<"1", "\n">> \o GitRefPrefix \o <<"c", "\n">> }

\* standard output of `docker inspect --format {{.Id}} <image>`
InspectOutputs == { <<"i", "1", "\n">>, <<" ", "i", "2", "\n">> }

\* os.Open / ioutil.ReadAll of the --images file
ReadImagesResults ==
    {Ok(c) : c \in FileContents} \cup {Failed("open", EmptyStr)}

\* ioutil.ReadFile and json.Unmarshal of the --files file; reading the empty
\* path always fails
ReadFilesListResults(path) ==
    IF path = EmptyStr THEN {Failed("open", EmptyMap)}
    ELSE {Ok(m) : m \in FilesMaps}
         \cup {Failed("open", EmptyMap), Failed("unmarshal", EmptyMap)}

\* cmd.Run() of docker run / docker inspect
RunResults == {Ok(out) : out \in RunOutputs} \cup {Failed("exit", EmptyStr)}
InspectResults ==
    {Ok(out) : out \in InspectOutputs} \cup {Failed("exit", EmptyStr)}

----------------------------------------------------------------------------
(* main *)

NoOutput == [kind |-> "none", drop_files |-> EmptyMap, docker_images |-> EmptyMap]

Init ==
    /\ reg \in RegistryFlags
    /\ imgs \in PathFlags
    /\ tag \in TagFlags
    /\ outf \in PathFlags
    /\ files \in PathFlags
    /\ pc = "main"
    /\ errmsg = ""
    /\ imgContent = Ok(EmptyStr)
    /\ filesContent = Ok(EmptyMap)
    /\ images = <<>>
    /\ dropFiles = EmptyMap
    /\ idx = 1
    /\ spec = New(EmptyStr, EmptyStr, EmptyStr)
    /\ outbuf = EmptyStr
    /\ imageID = EmptyStr
    /\ lines = <<>>
    /\ v = NewVersionInfo(<<>>, EmptyStr)
    /\ imageVersions = EmptyMap
    /\ outFile = NoOutput
    /\ trace = <<>>

\* log.Fatal / log.Fatalf: the process exits with status 1
Fatal(msg) ==
    /\ pc' = "fatal"
    /\ errmsg' = msg

\* one docker invocation, as seen from outside the process
Call(op, ok, out) ==
    [op |-> op, ref |-> spec, arg |-> String(spec), ok |-> ok, out |-> out]

\* main.go:191-202
CheckFlags ==
    /\ pc = "main"
    /\ IF imgs = EmptyStr THEN Fatal("--images must be set")
       ELSE IF reg = EmptyStr THEN Fatal("--registry must be set")
       ELSE IF tag = EmptyStr THEN Fatal("--tag must be set")
       ELSE IF outf = EmptyStr THEN Fatal("--output must be set")
       ELSE pc' = "ReadImages" /\ UNCHANGED errmsg
    /\ UNCHANGED <<reg, imgs, tag, outf, files, imgContent, filesContent,
                   images, dropFiles, idx, spec, outbuf, imageID, lines, v,
                   imageVersions, outFile, trace>>

\* main.go:203-206 with ReadImages
ReadImagesStep ==
    /\ pc = "ReadImages"
    /\ \E c \in ReadImagesResults :
        /\ imgContent' = c
        /\ IF c.err # ""
           THEN Fatal("Error reading images") /\ UNCHANGED images
           ELSE /\ images' = ReadLines(c.val)
                /\ pc' = "ReadFilesList"
                /\ UNCHANGED errmsg
    /\ UNCHANGED <<reg, imgs, tag, outf, files, filesContent, dropFiles, idx,
                   spec, outbuf, imageID, lines, v, imageVersions, outFile,
                   trace>>

\* faulty variant: the error of ReadFilesList is dropped and the run goes on
\* with an empty map
ReadFilesListStep_IgnoreError ==
    /\ pc = "ReadFilesList"
    /\ \E c \in ReadFilesListResults(files) :
        /\ filesContent' = c
        /\ dropFiles' = c.val
        /\ pc' = "loop"
    /\ UNCHANGED <<reg, imgs, tag, outf, files, errmsg, imgContent, images,
                   idx, spec, outbuf, imageID, lines, v, imageVersions,
                   outFile, trace>>

\* main.go:207-210 with ReadFilesList; ioutil.ReadFile("") always fails
ReadFilesListStep ==
    /\ pc = "ReadFilesList"
    /\ \E c \in ReadFilesListResults(files) :
        /\ filesContent' = c
        /\ IF c.err # ""
           THEN Fatal("Error reading files list") /\ UNCHANGED dropFiles
           ELSE /\ dropFiles' = c.val
                /\ pc' = "loop"
                /\ UNCHANGED errmsg
    /\ UNCHANGED <<reg, imgs, tag, outf, files, imgContent, images, idx, spec,
                   outbuf, imageID, lines, v, imageVersions, outFile, trace>>

\* main.go:212-214: the range loop takes the next image, or ends
LoopNext ==
    /\ pc = "loop"
    /\ IF idx <= Len(images)
       THEN /\ spec' = New(reg, images[idx], tag)
            /\ pc' = "Pull"
       ELSE /\ pc' = "Marshal"
            /\ UNCHANGED spec
    /\ UNCHANGED <<reg, imgs, tag, outf, files, errmsg, imgContent,
                   filesContent, images, dropFiles, idx, outbuf, imageID,
                   lines, v, imageVersions, outFile, trace>>

\* faulty variant: a failed pull is skipped and the loop goes on
PullImage_SkipOnError ==
    /\ pc = "Pull"
    /\ \E ok \in BOOLEAN :
        /\ trace' = Append(trace, Call("pull", ok, EmptyStr))
        /\ IF ok THEN pc' = "Run" /\ UNCHANGED idx
           ELSE pc' = "loop" /\ idx' = idx + 1
    /\ UNCHANGED <<reg, imgs, tag, outf, files, errmsg, imgContent,
                   filesContent, images, dropFiles, spec, outbuf, imageID,
                   lines, v, imageVersions, outFile>>

\* main.go:215-218 with ImageSpecifier.Pull
PullImage ==
    /\ pc = "Pull"
    /\ \E ok \in BOOLEAN :
        /\ trace' = Append(trace, Call("pull", ok, EmptyStr))
        /\ IF ok THEN pc' = "Run" /\ UNCHANGED errmsg
           ELSE Fatal("Error pulling image")
    /\ UNCHANGED <<reg, imgs, tag, outf, files, imgContent, filesContent,
                   images, dropFiles, idx, spec, outbuf, imageID, lines, v,
                   imageVersions, outFile>>

\* main.go:219-222 with ImageSpecifier.Version, up to the Flush (130-147)
VersionRun ==
    /\ pc = "Run"
    /\ \E r \in RunResults :
        IF r.err # ""
        THEN /\ trace' = Append(trace, Call("run", FALSE, r.val))
             /\ Fatal("Error getting version")
             /\ UNCHANGED outbuf
        ELSE /\ trace' = Append(trace, Call("run", TRUE, r.val))
             /\ outbuf' = r.val
             /\ pc' = "ImageID"
             /\ UNCHANGED errmsg
    /\ UNCHANGED <<reg, imgs, tag, outf, files, imgContent, filesContent,
                   images, dropFiles, idx, spec, imageID, lines, v,
                   imageVersions, outFile>>

\* faulty variant: a failed inspect yields the empty identifier and the run
\* goes on
ImageID_IgnoreError ==
    /\ pc = "ImageID"
    /\ \E r \in InspectResults :
        /\ trace' = Append(trace, Call("inspect", r.err = "", r.val))
        /\ imageID' = TrimSpace(r.val)
        /\ pc' = "NewVersionInfo"
    /\ UNCHANGED <<reg, imgs, tag, outf, files, errmsg, imgContent,
                   filesContent, images, dropFiles, idx, spec, outbuf, lines,
                   v, imageVersions, outFile>>

\* ImageSpecifier.ImageID, called from Version (main.go:148-151)
ImageID ==
    /\ pc = "ImageID"
    /\ \E r \in InspectResults :
        IF r.err # ""
        THEN /\ trace' = Append(trace, Call("inspect", FALSE, r.val))
             /\ Fatal("Error getting version")
             /\ UNCHANGED imageID
        ELSE /\ trace' = Append(trace, Call("inspect", TRUE, r.val))
             /\ imageID' = TrimSpace(r.val)
             /\ pc' = "NewVersionInfo"
             /\ UNCHANGED errmsg
    /\ UNCHANGED <<reg, imgs, tag, outf, files, imgContent, filesContent,
                   images, dropFiles, idx, spec, outbuf, lines, v,
                   imageVersions, outFile>>

\* main.go:152: NewVersionInfo(ReadLines(outbuf.Bytes()), imageID)
VersionReturn ==
    /\ pc = "NewVersionInfo"
    /\ lines' = ReadLines(outbuf)
    /\ v' = NewVersionInfo(ReadLines(outbuf), imageID)
    /\ pc' = "Append"
    /\ UNCHANGED <<reg, imgs, tag, outf, files, errmsg, imgContent,
                   filesContent, images, dropFiles, idx, spec, outbuf,
                   imageID, imageVersions, outFile, trace>>

\* faulty variant: the new record is put in front of the key's sequence
AppendVersion_Prepend ==
    /\ pc = "Append"
    /\ imageVersions' =
          MapSet(imageVersions, String(spec),
                 <<v>> \o Lookup(imageVersions, String(spec)))
    /\ idx' = idx + 1
    /\ pc' = "loop"
    /\ UNCHANGED <<reg, imgs, tag, outf, files, errmsg, imgContent,
                   filesContent, images, dropFiles, spec, outbuf, imageID,
                   lines, v, outFile, trace>>

\* faulty variant: the new record replaces the key's sequence
AppendVersion_Overwrite ==
    /\ pc = "Append"
    /\ imageVersions' = MapSet(imageVersions, String(spec), <<v>>)
    /\ idx' = idx + 1
    /\ pc' = "loop"
    /\ UNCHANGED <<reg, imgs, tag, outf, files, errmsg, imgContent,
                   filesContent, images, dropFiles, spec, outbuf, imageID,
                   lines, v, outFile, trace>>

\* main.go:223: imageVersions[spec.String()] = append(imageVersions[spec.String()], v)
AppendVersion ==
    /\ pc = "Append"
    /\ imageVersions' =
          MapSet(imageVersions, String(spec),
                 Append(Lookup(imageVersions, String(spec)), v))
    /\ idx' = idx + 1
    /\ pc' = "loop"
    /\ UNCHANGED <<reg, imgs, tag, outf, files, errmsg, imgContent,
                   filesContent, images, dropFiles, spec, outbuf, imageID,
                   lines, v, outFile, trace>>

\* main.go:225-236: the document is encoded and written to --output.
\* ioutil.WriteFile fails either before the file is opened or after it was
\* truncated.
WriteOutput ==
    /\ pc = "Marshal"
    /\ \E res \in {"ok", "open failed", "write failed"} :
        IF res = "ok"
        THEN /\ outFile' = [kind |-> "document",
                            drop_files |-> dropFiles,
                            docker_images |-> imageVersions]
             /\ pc' = "done"
             /\ UNCHANGED errmsg
        ELSE /\ outFile' = IF res = "open failed" THEN outFile
                           ELSE [NoOutput EXCEPT !.kind = "truncated"]
             /\ Fatal("Error writing JSON file")
    /\ UNCHANGED <<reg, imgs, tag, outf, files, imgContent, filesContent,
                   images, dropFiles, idx, spec, outbuf, imageID, lines, v,
                   imageVersions, trace>>

Next ==
    \/ CheckFlags
    \/ ReadImagesStep
    \/ ReadFilesListStep
    \/ LoopNext
    \/ PullImage
    \/ VersionRun
    \/ ImageID
    \/ VersionReturn
    \/ AppendVersion
    \/ WriteOutput

Spec == Init /\ [][Next]_vars

----------------------------------------------------------------------------
(* The version extractor on generated run outputs: the program stands right *)
(* after `docker inspect` of its only image returned, with the run output   *)
(* drawn from every text of at most MaxLines lines built from ExtractLines. *)

Remainders ==
    { EmptyStr,
      <<"1">>,
      <<"f","e","a","t","u","r","e">>,
      <<" ","e","1"," ">> }

ExtractLines ==
    {p \o r : p \in {AppVersionPrefix, GitRefPrefix, BuiltByPrefix},
              r \in Remainders}
    \cup { EmptyStr, <<"x">>, <<"G","i","t","-","R","e","f",":","1">> }

RECURSIVE JoinLines(_)
JoinLines(ls) ==
    IF ls = <<>> THEN EmptyStr
    ELSE Head(ls) \o <<"\n">> \o JoinLines(Tail(ls))

ExtractTexts ==
    {EmptyStr} \cup
    UNION {{JoinLines(ls) : ls \in [1..n -> ExtractLines]} : n \in 1..MaxLines}

InitExtract ==
    /\ reg = <<"r">>
    /\ imgs = <<"p">>
    /\ tag = <<"t">>
    /\ outf = <<"p">>
    /\ files = <<"p">>
    /\ pc = "NewVersionInfo"
    /\ errmsg = ""
    /\ imgContent = Ok(<<"a", "\n">>)
    /\ filesContent = Ok(EmptyMap)
    /\ images = ReadLines(<<"a", "\n">>)
    /\ dropFiles = EmptyMap
    /\ idx = 1
    /\ spec = New(<<"r">>, <<"a">>, <<"t">>)
    /\ outbuf \in ExtractTexts
    /\ \E id \in InspectOutputs :
        /\ imageID = TrimSpace(id)
        /\ trace = << [op |-> "pull", ref |-> spec, arg |-> String(spec),
                       ok |-> TRUE, out |-> EmptyStr],
                      [op |-> "run", ref |-> spec, arg |-> String(spec),
                       ok |-> TRUE, out |-> outbuf],
                      [op |-> "inspect", ref |-> spec, arg |-> String(spec),
                       ok |-> TRUE, out |-> id] >>
    /\ lines = <<>>
    /\ v = NewVersionInfo(<<>>, EmptyStr)
    /\ imageVersions = EmptyMap
    /\ outFile = NoOutput

NextExtract == VersionReturn

SpecExtract == InitExtract /\ [][NextExtract]_vars

----------------------------------------------------------------------------
(* Properties of the version extractor (checked under SpecExtract) *)

\* the recognized prefixes with the field each one sets
Markers ==
    { [prefix |-> AppVersionPrefix, field |-> "app_version"],
      [prefix |-> GitRefPrefix,     field |-> "git_ref"],
      [prefix |-> BuiltByPrefix,    field |-> "built_by"] }

\* positions of the lines that start with a prefix
Matching(ls, prefix) == {k \in DOMAIN ls : HasPrefix(ls[k], prefix)}

LastMatching(ls, prefix) ==
    CHOOSE k \in Matching(ls, prefix) : \A j \in Matching(ls, prefix) : k >= j

\* the line with the prefix removed exactly once
Remainder(line, prefix) == SubSeq(line, Len(prefix) + 1, Len(line))

Extracted == pc = "Append"

\* C3: a field whose prefix occurs equals the remainder of the (last) line
\* that starts with the prefix: the prefix removed once, whitespace trimmed.
C3_FieldIsTrimmedRemainder ==
    Extracted =>
        \A m \in Markers :
            Matching(lines, m.prefix) # {} =>
                v[m.field] =
                    TrimSpace(Remainder(lines[LastMatching(lines, m.prefix)],
                                        m.prefix))

\* C7: when several lines start with the same prefix, the field holds what
\* the extractor derives from the last of them alone, whatever the earlier
\* lines and the lines in between are.
C7_LastWriteWins ==
    Extracted =>
        \A m \in Markers :
            Matching(lines, m.prefix) # {} =>
                v[m.field] =
                    NewVersionInfo(<<lines[LastMatching(lines, m.prefix)]>>,
                                   imageID)[m.field]

\* a reachable case of C7: the same prefix on the first and the third line
\* with different values, another prefix on the line between them
C7_Witness ==
    /\ Extracted
    /\ Len(lines) = 3
    /\ HasPrefix(lines[1], GitRefPrefix)
    /\ HasPrefix(lines[2], AppVersionPrefix)
    /\ HasPrefix(lines[3], GitRefPrefix)
    /\ NewVersionInfo(<<lines[1]>>, imageID).git_ref # v.git_ref
    /\ v.git_ref # EmptyStr

MatchesSome(line) == \E m \in Markers : HasPrefix(line, m.prefix)

\* C8: the extractor yields a record for every sequence of lines; a field
\* whose prefix starts no line is the empty string; the lines that start with
\* no prefix change nothing (dropping them gives the same record).
C8_TotalWithDefaults ==
    Extracted =>
        /\ DOMAIN v = {"app_version", "git_ref", "built_by", "image_id"}
        /\ \A m \in Markers :
            Matching(lines, m.prefix) = {} => v[m.field] = EmptyStr
        /\ v = NewVersionInfo(SelectSeq(lines, MatchesSome), imageID)

\* a reachable case of C8: a line of no prefix after a recognized one, and a
\* prefix that starts no line
C8_Witness ==
    /\ Extracted
    /\ Len(lines) >= 2
    /\ HasPrefix(lines[1], GitRefPrefix)
    /\ ~MatchesSome(lines[Len(lines)])
    /\ v.git_ref # EmptyStr
    /\ Matching(lines, BuiltByPrefix) = {}
    /\ v.built_by = EmptyStr

----------------------------------------------------------------------------
(* Properties of a run of main (checked under Spec) *)

\* the canonical string of the i-th input name
Ref(i) == String(New(reg, images[i], tag))

\* how many of the first i input names equal the i-th
Occ(i) == Cardinality({j \in 1..i : images[j] = images[i]})

\* the images whose pull, run and inspect all succeeded and whose record was
\* appended
Processed == 1..(idx - 1)

\* the record the extractor owes to the i-th image, from docker's answers
TraceRec(i) ==
    NewVersionInfo(ReadLines(trace[3 * i - 1].out), TrimSpace(trace[3 * i].out))

EngineFailed == \E k \in DOMAIN trace : ~trace[k].ok

RECURSIVE TotalRecords(_)
TotalRecords(m) ==
    IF DOMAIN m = {} THEN 0
    ELSE LET key == CHOOSE k \in DOMAIN m : TRUE
         IN  Len(m[key]) + TotalRecords([k \in DOMAIN m \ {key} |-> m[k]])

\* C1: once a pull, run or inspect has failed the run has ended in error and
\* nothing was written to the output, whatever was collected before.
C1_FailFastNoOutput ==
    EngineFailed => pc = "fatal" /\ outFile = NoOutput

\* a reachable case of C1: inspect of the second image fails after the first
\* image's record was collected
C1_Witness ==
    /\ Len(trace) = 6
    /\ trace[6].op = "inspect"
    /\ ~trace[6].ok
    /\ TotalRecords(imageVersions) = 1
    /\ pc = "fatal"
    /\ outFile = NoOutput

\* C2: a run that ends in success has written a document whose docker_images
\* keys are exactly the canonical strings of the input names, each key with
\* as many records as its name occurs in the input, in input order, N in all.
C2_CompleteResult ==
    pc = "done" =>
        /\ outFile.kind = "document"
        /\ LET d == outFile.docker_images
               N == Len(images)
           IN  /\ DOMAIN d = {Ref(i) : i \in 1..N}
               /\ \A i \in 1..N :
                    /\ Len(d[Ref(i)]) =
                         Cardinality({j \in 1..N : images[j] = images[i]})
                    /\ d[Ref(i)][Occ(i)] = TraceRec(i)
               /\ TotalRecords(d) = N

\* a reachable case of C2: a name given twice, with two different records,
\* written under one key
C2_Witness ==
    /\ pc = "done"
    /\ \E i, j \in 1..Len(images) :
        /\ i < j
        /\ images[i] = images[j]
        /\ TraceRec(i) # TraceRec(j)
        /\ outFile.docker_images[Ref(i)] = <<TraceRec(i), TraceRec(j)>>

\* C4: every docker invocation is made on a reference whose registry, name
\* and tag are all non-empty.
C4_FieldsNonEmpty ==
    \A k \in DOMAIN trace :
        /\ trace[k].ref.Registry # EmptyStr
        /\ trace[k].ref.Image # EmptyStr
        /\ trace[k].ref.Tag # EmptyStr

ConfigError ==
    \/ imgs = EmptyStr
    \/ reg = EmptyStr
    \/ tag = EmptyStr
    \/ outf = EmptyStr
    \/ imgContent.err # ""
    \/ filesContent.err # ""

\* C5: with a required flag missing, or the image list or the files JSON
\* unreadable, no docker invocation is ever made and the run cannot get past
\* the configuration stage other than by ending in error.
C5_ConfigErrorsFirst ==
    ConfigError =>
        /\ trace = <<>>
        /\ pc \in {"main", "ReadImages", "ReadFilesList", "fatal"}
        /\ (imgContent.err # "" \/ filesContent.err # "") => pc = "fatal"

\* a reachable case of C5: the files JSON does not decode although there are
\* images to process
C5_Witness ==
    /\ filesContent.err = "unmarshal"
    /\ Len(images) > 0
    /\ pc = "fatal"
    /\ trace = <<>>

\* C6: the image_id of every collected record is the trimmed answer of the
\* inspect call made for its image, and the same for every run output the
\* image could have printed.
C6_ImageIdFromInspect ==
    /\ \A i \in Processed :
        LET rec == imageVersions[Ref(i)][Occ(i)]
            id  == TrimSpace(trace[3 * i].out)
        IN  /\ trace[3 * i].op = "inspect"
            /\ trace[3 * i].arg = Ref(i)
            /\ rec.image_id = id
            /\ \A alt \in RunOutputs :
                 NewVersionInfo(ReadLines(alt), id).image_id = rec.image_id
    /\ pc = "Append" => v.image_id = TrimSpace(trace[Len(trace)].out)

\* a reachable case of C6: two images with different run outputs and the same
\* inspect answer, which needed trimming, have the same image_id
C6_Witness ==
    \E i, j \in Processed :
        /\ trace[3 * i - 1].out # trace[3 * j - 1].out
        /\ trace[3 * i].out = trace[3 * j].out
        /\ TrimSpace(trace[3 * i].out) # trace[3 * i].out
        /\ TraceRec(i).git_ref # EmptyStr
        /\ imageVersions[Ref(i)][Occ(i)].image_id =
             imageVersions[Ref(j)][Occ(j)].image_id
        /\ imageVersions[Ref(i)][Occ(i)] # imageVersions[Ref(j)][Occ(j)]

OpOrder == <<"pull", "run", "inspect">>

\* C9: the docker invocations are a prefix of pull, run, inspect of the first
\* name, then of the second, ...; each is made on the canonical string that
\* keys the aggregate; only the last one can have failed, and then the run
\* has ended.
C9_SequentialOrder ==
    /\ \A k \in DOMAIN trace :
        LET i == ((k - 1) \div 3) + 1
        IN  /\ i <= Len(images)
            /\ trace[k].op = OpOrder[((k - 1) % 3) + 1]
            /\ trace[k].arg = Ref(i)
            /\ k < Len(trace) => trace[k].ok
    /\ EngineFailed => pc = "fatal"
    /\ pc \in {"loop", "Marshal", "done"} => Len(trace) = 3 * (idx - 1)
    /\ pc = "done" => Len(trace) = 3 * Len(images)
    /\ DOMAIN imageVersions = {trace[3 * i].arg : i \in Processed}

\* a reachable case of C9: the run of the second of two different images
\* fails
C9_Witness ==
    /\ Len(trace) = 5
    /\ ~trace[5].ok
    /\ trace[5].op = "run"
    /\ trace[5].arg # trace[3].arg
    /\ pc = "fatal"

\* C10: a step changes the aggregate only by appending the record of the
\* image just processed at the end of the sequence under its canonical
\* string; all other keys and all earlier records stay; after k images the
\* aggregate holds k records.
AppendOnlyStep ==
    /\ \/ imageVersions' = imageVersions /\ idx' = idx
       \/ /\ idx' = idx + 1
          /\ DOMAIN imageVersions' = DOMAIN imageVersions \cup {Ref(idx)}
          /\ imageVersions'[Ref(idx)] =
                Append(Lookup(imageVersions, Ref(idx)), TraceRec(idx))
          /\ \A key \in DOMAIN imageVersions \ {Ref(idx)} :
                imageVersions'[key] = imageVersions[key]
    /\ TotalRecords(imageVersions') = idx' - 1

C10_AppendOnly == [][AppendOnlyStep]_vars

\* a reachable case of C10: a second record was appended under a key that
\* already had one
C10_Witness ==
    \E key \in DOMAIN imageVersions :
        /\ Len(imageVersions[key]) = 2
        /\ imageVersions[key][1] # imageVersions[key][2]
        /\ idx = 3

====
